---- MODULE Spec2Model ----
(***************************************************************************)
(* A model of the link_args crate's MSVC directive engine: the ArgSize     *)
(* size calculator, the const-generic Buffer / LinkArgs byte buffer, and   *)
(* the macros that size, fill and embed a .drectve byte array.             *)
(*                                                                         *)
(* Bytes are u8 values (0..255).  A Rust array or slice is a TLA+ sequence *)
(* (1-based: Rust index i is TLA+ index i + 1).                            *)
(***************************************************************************)
EXTENDS Integers, Sequences, FiniteSets, TLC

(***************************************************************************)
(* String literals.  str::as_bytes is the sequence of the ASCII codes     *)
(* of the characters; Printable lists the characters of codes 32..95.      *)
(***************************************************************************)
Printable ==
    <<
       " ", "!", "\"", "#", "$", "%", "&", "'", "(", ")", "*", "+", ",", "-", ".", "/",
       "0", "1", "2", "3", "4", "5", "6", "7", "8", "9", ":", ";", "<", "=", ">", "?",
       "@", "A", "B", "C", "D", "E", "F", "G", "H", "I", "J", "K", "L", "M", "N", "O",
       "P", "Q", "R", "S", "T", "U", "V", "W", "X", "Y", "Z", "[", "\\", "]", "^", "_"
    >>
\* The characters of codes 97..126 (code 96 is not used by any literal).
Lower ==
    <<
       "a", "b", "c", "d", "e", "f", "g", "h", "i", "j", "k", "l", "m", "n", "o",
       "p", "q", "r", "s", "t", "u", "v", "w", "x", "y", "z", "{", "|", "}", "~"
    >>

\* The byte (ASCII code) of one printable character.
Ord(c) ==
    IF \E i \in 1..Len(Printable) : Printable[i] = c
    THEN 31 + (CHOOSE i \in 1..Len(Printable) : Printable[i] = c)
    ELSE 96 + (CHOOSE i \in 1..Len(Lower) : Lower[i] = c)

\* str::as_bytes of a literal, the literal given character by character.
as_bytes(s) == [i \in 1..Len(s) |-> Ord(s[i])]

(***************************************************************************)
(* src/msvc_impl/buffer.rs                                                 *)
(*                                                                         *)
(* A Buffer<CAPACITY> value is the record [buffer, len, panicked]: buffer  *)
(* is the [u8; CAPACITY] array, len the cursor.  Every method takes self   *)
(* by value and returns it, so a method is an operator from records to     *)
(* records.  Indexing the array out of bounds panics (in const evaluation: *)
(* the build fails); panicked = TRUE is the outcome "the call did not      *)
(* return", and no later call of the chain runs.                           *)
(***************************************************************************)

\* Buffer::new: buffer: [0; CAPACITY], len: 0.
Buffer_new(CAPACITY) ==
    [buffer |-> [i \in 1..CAPACITY |-> 0], len |-> 0, panicked |-> FALSE]

\* A faulty push loop: the bounds check is off by one (len > CAPACITY), so
\* one write past the end is lost and the cursor passes CAPACITY.
RECURSIVE push_loop_late_check(_, _, _)
push_loop_late_check(self, src, offset) ==
    IF self.len - offset < Len(src)
    THEN IF self.len > Len(self.buffer)
         THEN [self EXCEPT !.panicked = TRUE]
         ELSE push_loop_late_check(
                  [buffer |-> [i \in 1..Len(self.buffer) |->
                                  IF i = self.len + 1 THEN src[self.len - offset + 1]
                                                      ELSE self.buffer[i]],
                   len |-> self.len + 1,
                   panicked |-> FALSE],
                  src, offset)
    ELSE self

\* A faulty push loop: no bounds check on the destination index (the write
\* past the end is lost and the cursor runs on).
RECURSIVE push_loop_unchecked(_, _, _)
push_loop_unchecked(self, src, offset) ==
    IF self.len - offset < Len(src)
    THEN push_loop_unchecked(
             [buffer |-> [i \in 1..Len(self.buffer) |->
                             IF i = self.len + 1 THEN src[self.len - offset + 1]
                                                 ELSE self.buffer[i]],
              len |-> self.len + 1,
              panicked |-> FALSE],
             src, offset)
    ELSE self

\* A faulty push loop: the destination index is taken relative to the slice
\* (self.len - offset) instead of the cursor.
RECURSIVE push_loop_from_start(_, _, _)
push_loop_from_start(self, src, offset) ==
    IF self.len - offset < Len(src)
    THEN IF self.len >= Len(self.buffer)
         THEN [self EXCEPT !.panicked = TRUE]
         ELSE push_loop_from_start(
                  [self EXCEPT !.buffer[self.len - offset + 1] = src[self.len - offset + 1],
                               !.len = self.len + 1],
                  src, offset)
    ELSE self

\* The loop of Buffer::push, offset being self.len at entry:
\*   while self.len - offset < src.len() {
\*       self.buffer[self.len] = src[self.len - offset];  self.len += 1; }
RECURSIVE push_loop(_, _, _)
push_loop(self, src, offset) ==
    IF self.len - offset < Len(src)
    THEN IF self.len >= Len(self.buffer)
         THEN [self EXCEPT !.panicked = TRUE]
         ELSE push_loop([self EXCEPT !.buffer[self.len + 1] = src[self.len - offset + 1],
                                     !.len = self.len + 1],
                        src, offset)
    ELSE self

\* Buffer::push.
push(self, src) ==
    IF self.panicked THEN self ELSE push_loop(self, src, self.len)

\* Buffer::push_seperator: self.push(b" ").
push_seperator(self) == push(self, as_bytes(<<" ">>))

\* A faulty push_directive: it backs the cursor up over the previous
\* separator before it pushes.
push_directive_over_seperator(self, argument) ==
    LET back == IF self.len > 0 THEN [self EXCEPT !.len = self.len - 1] ELSE self
    IN  push(push(back, as_bytes(<<"/">>)), argument)

\* Buffer::push_directive: self.push(b"/").push(argument.as_bytes()).
push_directive(self, argument) == push(push(self, as_bytes(<<"/">>)), argument)

\* Buffer::push_value: self.push(b":").push(value.as_bytes()).
push_value(self, value) == push(push(self, as_bytes(<<":">>)), value)

\* has_quote: whether some byte of s is the double quote.
RECURSIVE has_quote_loop(_, _)
has_quote_loop(s, index) ==
    IF index < Len(s)
    THEN IF s[index + 1] = Ord("\"") THEN TRUE ELSE has_quote_loop(s, index + 1)
    ELSE FALSE

has_quote(s) == has_quote_loop(s, 0)

\* Buffer::push_value_quoted.
push_value_quoted(self, value) ==
    IF ~has_quote(value)
    THEN push(push(push(self, as_bytes(<<":", "\"">>)), value), as_bytes(<<"\"">>))
    ELSE self

\* The lookup table of to_hex_u32.
lookup ==
    as_bytes(<<"0", "1", "2", "3", "4", "5", "6", "7", "8",
               "9", "a", "b", "c", "d", "e", "f">>)

\* A u32 is the pair <<high 16 bits, low 16 bits>> (the model checker's
\* integers are 32-bit signed, so u32::MAX is not one of them).
\* val & 0xf:
u32_and_0xf(val) == val[2] % 16

\* val >> 4:
u32_shr_4(val) == <<val[1] \div 16, (val[1] % 16) * 4096 + (val[2] \div 16)>>

\* The loop of to_hex_u32:
\*   while index > 1 { bytes[index] = lookup[(val & 0xf) as usize];
\*                     val >>= 4;  index -= 1; }
RECURSIVE to_hex_loop(_, _, _)
to_hex_loop(bytes, val, index) ==
    IF index > 1
    THEN to_hex_loop([bytes EXCEPT ![index + 1] = lookup[u32_and_0xf(val) + 1]],
                     u32_shr_4(val), index - 1)
    ELSE bytes

\* A faulty to_hex_u32: the loop starts one digit early (bytes.len() - 2).
to_hex_u32_off_by_one(val) ==
    LET bytes == as_bytes(<<"0", "x", "0", "0", "0", "0", "0", "0", "0", "0">>)
    IN  to_hex_loop(bytes, val, Len(bytes) - 2)

\* to_hex_u32: the [u8; 10] text of a u32, starting from *b"0x00000000".
to_hex_u32(val) ==
    LET bytes == as_bytes(<<"0", "x", "0", "0", "0", "0", "0", "0", "0", "0">>)
    IN  to_hex_loop(bytes, val, Len(bytes) - 1)

\* Buffer::push_value_hex.
push_value_hex(self, value) ==
    LET hex == to_hex_u32(value)
    IN  push(push(self, as_bytes(<<":">>)), hex)

\* The loop of Buffer::push_values_hex:
\*   while index < values.len() - 1 {
\*       self = self.push(&to_hex_u32(values[index])).push(b","); index += 1; }
\*   self.push(&to_hex_u32(values[index]))
RECURSIVE push_values_hex_loop(_, _, _)
push_values_hex_loop(self, values, index) ==
    IF index < Len(values) - 1
    THEN push_values_hex_loop(
             push(push(self, to_hex_u32(values[index + 1])), as_bytes(<<",">>)),
             values, index + 1)
    ELSE push(self, to_hex_u32(values[index + 1]))

\* Buffer::push_values_hex.
push_values_hex(self, values) ==
    IF Len(values) = 0
    THEN self
    ELSE push_values_hex_loop(push(self, as_bytes(<<":">>)), values, 0)

(***************************************************************************)
(* src/msvc_impl.rs: ArgSize, the byte length of an argument.              *)
(***************************************************************************)

\* ArgSize::STACK_SIZE: "/STACK:0x00000000 ".len().
ArgSize_STACK_SIZE ==
    Len(<<"/", "S", "T", "A", "C", "K", ":", "0", "x",
          "0", "0", "0", "0", "0", "0", "0", "0", " ">>)

\* ArgSize::STACK_SIZE_WITH_COMMIT: "/STACK:0x00000000,0x00000000 ".len().
ArgSize_STACK_SIZE_WITH_COMMIT ==
    Len(<<"/", "S", "T", "A", "C", "K", ":", "0", "x",
          "0", "0", "0", "0", "0", "0", "0", "0", ",", "0", "x",
          "0", "0", "0", "0", "0", "0", "0", "0", " ">>)

\* ArgSize::DISABLE_ALL_DEFAULT_LIBS: "/NODEFAULTLIB ".len().
ArgSize_DISABLE_ALL_DEFAULT_LIBS ==
    Len(<<"/", "N", "O", "D", "E", "F", "A", "U", "L", "T", "L", "I", "B", " ">>)

\* A faulty ArgSize::default_lib: the literal lacks the separator.
ArgSize_default_lib_no_space(lib) ==
    Len(<<"/", "D", "E", "F", "A", "U", "L", "T", "L", "I", "B", ":", "\"", "\"">>)
        + Len(lib)

\* ArgSize::default_lib: "/DEFAULTLIB: \"\"".len() + lib.len().
ArgSize_default_lib(lib) ==
    Len(<<"/", "D", "E", "F", "A", "U", "L", "T", "L", "I", "B", ":", " ", "\"", "\"">>)
        + Len(lib)

\* ArgSize::no_default_lib: "/NODEFAULTLIB: \"\"".len() + lib.len().
ArgSize_no_default_lib(lib) ==
    Len(<<"/", "N", "O", "D", "E", "F", "A", "U", "L", "T", "L", "I", "B",
          ":", " ", "\"", "\"">>)
        + Len(lib)

(***************************************************************************)
(* src/msvc_impl.rs: LinkArgs<CAPACITY>.  The struct has the one field     *)
(* buffer: Buffer<CAPACITY>; a LinkArgs value is that Buffer record.       *)
(***************************************************************************)

\* The directive names passed to push_directive.
STACK == as_bytes(<<"S", "T", "A", "C", "K">>)
DEFAULTLIB == as_bytes(<<"D", "E", "F", "A", "U", "L", "T", "L", "I", "B">>)
NODEFAULTLIB == as_bytes(<<"N", "O", "D", "E", "F", "A", "U", "L", "T", "L", "I", "B">>)

\* LinkArgs::new.
LinkArgs_new(CAPACITY) == Buffer_new(CAPACITY)

\* LinkArgs::stack_size.
stack_size(self, reserve) ==
    push_seperator(push_value_hex(push_directive(self, STACK), reserve))

\* A faulty stack_size_with_commit: commit before reserve.
stack_size_with_commit_swapped(self, reserve, commit) ==
    push_seperator(push_values_hex(push_directive(self, STACK), <<commit, reserve>>))

\* LinkArgs::stack_size_with_commit.
stack_size_with_commit(self, reserve, commit) ==
    push_seperator(push_values_hex(push_directive(self, STACK), <<reserve, commit>>))

\* LinkArgs::default_lib.
default_lib(self, lib) ==
    push_seperator(push_value_quoted(push_directive(self, DEFAULTLIB), lib))

\* A faulty no_default_lib: the directive name of default_lib.
no_default_lib_wrong_name(self, lib) ==
    push_seperator(push_value_quoted(push_directive(self, DEFAULTLIB), lib))

\* LinkArgs::no_default_lib.
no_default_lib(self, lib) ==
    push_seperator(push_value_quoted(push_directive(self, NODEFAULTLIB), lib))

\* A faulty disable_all_default_libs: a colon after the name.
disable_all_default_libs_colon(self) ==
    push_seperator(push_value(push_directive(self, NODEFAULTLIB), as_bytes(<<>>)))

\* LinkArgs::disable_all_default_libs.
disable_all_default_libs(self) ==
    push_seperator(push_directive(self, NODEFAULTLIB))

\* A faulty raw: no separator after the text.
raw_no_seperator(self, raw_args) == push(self, raw_args)

\* LinkArgs::raw: self.buffer.push(raw.as_bytes()).push_seperator().
raw(self, raw_args) == push_seperator(push(self, raw_args))

\* LinkArgs::len.
LinkArgs_len(self) == self.len

\* A faulty into_array: only the bytes before the cursor.
into_array_stripped(self) == SubSeq(self.buffer, 1, self.len)

\* LinkArgs::into_array.
into_array(self) == self.buffer

(***************************************************************************)
(* src/msvc_impl/macros.rs: the macros.  A directive of a windows! block   *)
(* is the record [op, nums, strs]: op is the token before the parentheses, *)
(* nums its u32 arguments and strs its string arguments (as bytes).        *)
(***************************************************************************)

RECURSIVE SumSeq(_)
SumSeq(s) == IF Len(s) = 0 THEN 0 ELSE Head(s) + SumSeq(Tail(s))

RECURSIVE Flatten(_)
Flatten(ss) == IF Len(ss) = 0 THEN <<>> ELSE Head(ss) \o Flatten(Tail(ss))

\* impl_msvc_arg_size!: the size of one directive, by macro arm.
impl_msvc_arg_size(d) ==
    CASE d.op = "stack_size" /\ Len(d.nums) = 1 -> ArgSize_STACK_SIZE
      [] d.op = "stack_size" /\ Len(d.nums) = 2 -> ArgSize_STACK_SIZE_WITH_COMMIT
      [] d.op = "default_lib" ->
            SumSeq([i \in 1..Len(d.strs) |-> ArgSize_default_lib(d.strs[i])])
      [] d.op = "no_default_lib" ->
            SumSeq([i \in 1..Len(d.strs) |-> ArgSize_no_default_lib(d.strs[i])])
      [] d.op = "disable_all_default_libs" -> ArgSize_DISABLE_ALL_DEFAULT_LIBS
      [] d.op = "raw" -> Len(d.strs[1]) + 1

\* impl_msvc_args!: the LinkArgs method calls one directive expands to, in
\* order; a call is the record [fn, nums, str].
impl_msvc_args(d) ==
    CASE d.op = "stack_size" /\ Len(d.nums) = 1 ->
            << [fn |-> "stack_size", nums |-> d.nums, str |-> <<>>] >>
      [] d.op = "stack_size" /\ Len(d.nums) = 2 ->
            << [fn |-> "stack_size_with_commit", nums |-> d.nums, str |-> <<>>] >>
      [] d.op = "default_lib" ->
            [i \in 1..Len(d.strs) |->
                [fn |-> "default_lib", nums |-> <<>>, str |-> d.strs[i]]]
      [] d.op = "no_default_lib" ->
            [i \in 1..Len(d.strs) |->
                [fn |-> "no_default_lib", nums |-> <<>>, str |-> d.strs[i]]]
      [] d.op = "disable_all_default_libs" ->
            << [fn |-> "disable_all_default_libs", nums |-> <<>>, str |-> <<>>] >>
      [] d.op = "raw" ->
            << [fn |-> "raw", nums |-> <<>>, str |-> d.strs[1]] >>

\* windows!: const SIZE: usize = 0 $(+ impl_msvc_arg_size!(...))+.
windows_SIZE(args) == SumSeq([i \in 1..Len(args) |-> impl_msvc_arg_size(args[i])])

\* windows!: the calls of $( buf = impl_msvc_args!(buf, ...); )+, in order.
windows_calls(args) == Flatten([i \in 1..Len(args) |-> impl_msvc_args(args[i])])

\* The loop of windows_raw!:
\*   while index < raw_args.len() { bytes[index] = raw_args[index]; index += 1; }
RECURSIVE windows_raw_loop(_, _, _)
windows_raw_loop(bytes, raw_args, index) ==
    IF index < Len(raw_args)
    THEN windows_raw_loop([bytes EXCEPT ![index + 1] = raw_args[index + 1]],
                          raw_args, index + 1)
    ELSE [bytes EXCEPT ![index + 1] = Ord(" ")]

\* windows_raw!: const args: [u8; raw_args.len() + 1].
windows_raw(raw_args) ==
    windows_raw_loop([i \in 1..(Len(raw_args) + 1) |-> 0], raw_args, 0)

\* windows_msvc_stack_size!($reserve): impl_msvc_bytes!(ArgSize::STACK_SIZE,
\* LinkArgs::new().stack_size($reserve).into_array()).
windows_msvc_stack_size(reserve) ==
    into_array(stack_size(LinkArgs_new(ArgSize_STACK_SIZE), reserve))

\* windows_msvc_stack_size!($reserve, $commit).
windows_msvc_stack_size_commit(reserve, commit) ==
    into_array(stack_size_with_commit(LinkArgs_new(ArgSize_STACK_SIZE_WITH_COMMIT),
                                      reserve, commit))

(***************************************************************************)
(* src/lib.rs: msvc::stack_size!, which patches the hex digits into the    *)
(* literal text in place.                                                  *)
(***************************************************************************)

\* The lookup table of msvc_stack_size!.
msvc_stack_size_lookup ==
    as_bytes(<<"0", "1", "2", "3", "4", "5", "6", "7", "8",
               "9", "a", "b", "c", "d", "e", "f">>)

\* The loops of msvc_stack_size!, stop being 16-8 or 27-8:
\*   while index > stop { array[index] = lookup[(val & 0xf) as usize];
\*                        val >>= 4;  index -= 1; }
RECURSIVE msvc_stack_size_loop(_, _, _, _)
msvc_stack_size_loop(array, val, index, stop) ==
    IF index > stop
    THEN msvc_stack_size_loop(
             [array EXCEPT ![index + 1] = msvc_stack_size_lookup[u32_and_0xf(val) + 1]],
             u32_shr_4(val), index - 1, stop)
    ELSE array

\* A faulty msvc_stack_size!($reserve): the loop stops one digit early.
msvc_stack_size_short(reserve) ==
    LET array == as_bytes(<<"/", "S", "T", "A", "C", "K", ":", "0", "x", "0", "0", "0", "0", "0", "0", "0", "0", " ">>)
    IN  msvc_stack_size_loop(array, reserve, 16, 16 - 7)

\* msvc_stack_size!($reserve): static DIRECTIVE: [u8; 18].
msvc_stack_size(reserve) ==
    LET array == as_bytes(<<"/", "S", "T", "A", "C", "K", ":", "0", "x", "0", "0", "0", "0", "0", "0", "0", "0", " ">>)
    IN  msvc_stack_size_loop(array, reserve, 16, 16 - 8)

\* msvc_stack_size!($reserve, $commit): static DIRECTIVE: [u8; 29].
msvc_stack_size_commit(reserve, commit) ==
    LET array == as_bytes(<<"/", "S", "T", "A", "C", "K", ":", "0", "x",
                            "0", "0", "0", "0", "0", "0", "0", "0", ",", "0", "x",
                            "0", "0", "0", "0", "0", "0", "0", "0", " ">>)
        patched == msvc_stack_size_loop(array, reserve, 16, 16 - 8)
    IN  msvc_stack_size_loop(patched, commit, 27, 27 - 8)

(***************************************************************************)
(* The inputs.                                                             *)
(***************************************************************************)

\* The most directives in one windows! block or one LinkArgs chain.
MaxDirectives == 2

\* u32 stack sizes, as <<high half, low half>>:
\* 0, 0x00800000, 0x01234567, 0x89abcdef and u32::MAX.
Reserves == {<<0, 0>>, <<128, 0>>, <<291, 17767>>, <<35243, 52719>>, <<65535, 65535>>}

\* (reserve, commit): (0x800000, 0x400000), (0x89abcdef, 0x01234567), (0, u32::MAX).
ReserveCommits ==
    { << <<128, 0>>, <<64, 0>> >>,
      << <<35243, 52719>>, <<291, 17767>> >>,
      << <<0, 0>>, <<65535, 65535>> >> }

\* Library names, without and with a double quote.
ucrt == as_bytes(<<"u", "c", "r", "t">>)
libvcruntime == as_bytes(<<"l", "i", "b", "v", "c", "r", "u", "n", "t", "i", "m", "e">>)
libcmt == as_bytes(<<"l", "i", "b", "c", "m", "t">>)
kernel32 == as_bytes(<<"k", "e", "r", "n", "e", "l", "3", "2", ".", "l", "i", "b">>)
my_quote_lib == as_bytes(<<"m", "y", "\"", "l", "i", "b">>)
quote_only == as_bytes(<<"\"">>)

DefaultLibLists ==
    { <<ucrt, libvcruntime, libcmt>>, <<kernel32>>, <<my_quote_lib>>,
      <<as_bytes(<<>>), quote_only>> }

NoDefaultLibLists ==
    { <<kernel32>>, <<my_quote_lib>>, <<libcmt, quote_only, as_bytes(<<>>)>> }

\* Raw texts: empty, plain, and with quotes and a space.
entry_text == as_bytes(<<"/", "E", "N", "T", "R", "Y", ":", "m", "a", "i", "n", "C", "R", "T", "S", "t", "a", "r", "t", "u", "p">>)
quoted_text == as_bytes(<<"/", "X", ":", "\"", "a", " ", "b", "\"">>)

RawTexts == { as_bytes(<<>>), entry_text, quoted_text }

Directives ==
    {[op |-> "stack_size", nums |-> <<r>>, strs |-> <<>>] : r \in Reserves}
    \cup {[op |-> "stack_size", nums |-> rc, strs |-> <<>>] : rc \in ReserveCommits}
    \cup {[op |-> "default_lib", nums |-> <<>>, strs |-> l] : l \in DefaultLibLists}
    \cup {[op |-> "no_default_lib", nums |-> <<>>, strs |-> l] : l \in NoDefaultLibLists}
    \cup {[op |-> "disable_all_default_libs", nums |-> <<>>, strs |-> <<>>]}
    \cup {[op |-> "raw", nums |-> <<>>, strs |-> <<x>>] : x \in RawTexts}

\* Directive lists of 1..MaxDirectives entries (the macro pattern is $(...);+).
Programs == UNION {[1..n -> Directives] : n \in 1..MaxDirectives}

\* The CAPACITY const parameters of a LinkArgs used without the macro.
Capacities == {0, 18, 29, 47, 96}

(***************************************************************************)
(* The state machine: one macro invocation, or one use of LinkArgs, from   *)
(* its arguments to the DIRECTIVE bytes placed in the .drectve section.    *)
(***************************************************************************)
VARIABLES
    input,      \* [name, args, text, nums]: what is invoked, with its arguments
    pc,         \* "size", "new", "fill", "raw", "msvc", "done" or "panic"
    CAPACITY,   \* the const parameter of LinkArgs (ns::SIZE under windows!)
    BUFFER,     \* the LinkArgs value being built
    index,      \* how many calls of the chain have returned
    DIRECTIVE   \* the emitted array (empty until it is emitted)

vars == <<input, pc, CAPACITY, BUFFER, index, DIRECTIVE>>

\* The method calls of the invocation, in order.
calls == windows_calls(input.args)

Init ==
    /\ BUFFER = Buffer_new(0)
    /\ index = 0
    /\ DIRECTIVE = <<>>
    /\ \/ /\ \E a \in Programs :
                 input = [name |-> "windows", args |-> a, text |-> <<>>, nums |-> <<>>]
          /\ pc = "size"
          /\ CAPACITY = 0
       \/ /\ \E a \in Programs :
                 input = [name |-> "LinkArgs", args |-> a, text |-> <<>>, nums |-> <<>>]
          /\ pc = "new"
          /\ CAPACITY \in Capacities
       \/ /\ \E x \in RawTexts :
                 input = [name |-> "windows_raw", args |-> <<>>, text |-> x, nums |-> <<>>]
          /\ pc = "raw"
          /\ CAPACITY = 0
       \/ /\ \E n \in {<<r>> : r \in Reserves} \cup ReserveCommits :
                 input = [name |-> "msvc_stack_size", args |-> <<>>, text |-> <<>>,
                          nums |-> n]
          /\ pc = "msvc"
          /\ CAPACITY = 0

\* windows!: const SIZE.
WindowsSize ==
    /\ pc = "size"
    /\ CAPACITY' = windows_SIZE(input.args)
    /\ pc' = "new"
    /\ UNCHANGED <<input, BUFFER, index, DIRECTIVE>>

\* let mut buf = LinkArgs::new();
New ==
    /\ pc = "new"
    /\ BUFFER' = LinkArgs_new(CAPACITY)
    /\ index' = 0
    /\ pc' = "fill"
    /\ UNCHANGED <<input, CAPACITY, DIRECTIVE>>

\* The next call of the chain returns b, or panics.
Return(b) ==
    /\ BUFFER' = b
    /\ index' = index + 1
    /\ pc' = IF b.panicked THEN "panic" ELSE "fill"
    /\ UNCHANGED <<input, CAPACITY, DIRECTIVE>>

NextCall(fn) == pc = "fill" /\ index < Len(calls) /\ calls[index + 1].fn = fn

StackSize ==
    /\ NextCall("stack_size")
    /\ Return(stack_size(BUFFER, calls[index + 1].nums[1]))

StackSizeWithCommit ==
    /\ NextCall("stack_size_with_commit")
    /\ Return(stack_size_with_commit(BUFFER, calls[index + 1].nums[1],
                                     calls[index + 1].nums[2]))

DefaultLib ==
    /\ NextCall("default_lib")
    /\ Return(default_lib(BUFFER, calls[index + 1].str))

NoDefaultLib ==
    /\ NextCall("no_default_lib")
    /\ Return(no_default_lib(BUFFER, calls[index + 1].str))

DisableAllDefaultLibs ==
    /\ NextCall("disable_all_default_libs")
    /\ Return(disable_all_default_libs(BUFFER))

Raw ==
    /\ NextCall("raw")
    /\ Return(raw(BUFFER, calls[index + 1].str))

\* impl_msvc_bytes!(ns::SIZE, ns::BUFFER.into_array()): the chain is over.
IntoArray ==
    /\ pc = "fill"
    /\ index = Len(calls)
    /\ DIRECTIVE' = into_array(BUFFER)
    /\ pc' = "done"
    /\ UNCHANGED <<input, CAPACITY, BUFFER, index>>

\* windows_raw!: impl_msvc_bytes!(ns::args.len(), ns::args).
WindowsRaw ==
    /\ pc = "raw"
    /\ DIRECTIVE' = windows_raw(input.text)
    /\ CAPACITY' = Len(input.text) + 1
    /\ pc' = "done"
    /\ UNCHANGED <<input, BUFFER, index>>

\* msvc::stack_size!($reserve).
MsvcStackSize ==
    /\ pc = "msvc"
    /\ Len(input.nums) = 1
    /\ DIRECTIVE' = msvc_stack_size(input.nums[1])
    /\ pc' = "done"
    /\ UNCHANGED <<input, CAPACITY, BUFFER, index>>

\* msvc::stack_size!($reserve, $commit).
MsvcStackSizeCommit ==
    /\ pc = "msvc"
    /\ Len(input.nums) = 2
    /\ DIRECTIVE' = msvc_stack_size_commit(input.nums[1], input.nums[2])
    /\ pc' = "done"
    /\ UNCHANGED <<input, CAPACITY, BUFFER, index>>

Next ==
    \/ WindowsSize
    \/ New
    \/ StackSize
    \/ StackSizeWithCommit
    \/ DefaultLib
    \/ NoDefaultLib
    \/ DisableAllDefaultLibs
    \/ Raw
    \/ IntoArray
    \/ WindowsRaw
    \/ MsvcStackSize
    \/ MsvcStackSizeCommit

Spec == Init /\ [][Next]_vars

TypeOK ==
    /\ pc \in {"size", "new", "fill", "raw", "msvc", "done", "panic"}
    /\ Len(BUFFER.buffer) \in {0, CAPACITY}
    /\ \A i \in 1..Len(BUFFER.buffer) : BUFFER.buffer[i] \in 0..255

(***************************************************************************)
(* Properties.                                                             *)
(***************************************************************************)

\* Whether a name holds the double-quote byte (0x22).
ContainsQuote(s) == \E i \in 1..Len(s) : s[i] = 34

\* The call the chain makes next.
TheCall == calls[index + 1]

\* The step leaves a buffer that differs from the old one in exactly the
\* bytes written at the old cursor, with the cursor moved past them; stated
\* for a buffer whose remaining capacity holds the bytes.
AppendsExactly(bytes) ==
    BUFFER.len + Len(bytes) <= CAPACITY =>
        /\ ~BUFFER'.panicked
        /\ pc' = "fill"
        /\ BUFFER'.len = BUFFER.len + Len(bytes)
        /\ BUFFER'.buffer =
               [i \in 1..CAPACITY |->
                   IF i > BUFFER.len /\ i <= BUFFER.len + Len(bytes)
                   THEN bytes[i - BUFFER.len]
                   ELSE BUFFER.buffer[i]]

\* A hex digit 0..15 as a lowercase ASCII character: 0-9 are 0x30.., a-f 0x61...
HexDigit(n) == IF n < 10 THEN 48 + n ELSE 87 + n

\* The 8 zero-padded hex digits of a u32, most significant first.
Hex8(val) ==
    [k \in 1..8 |->
        HexDigit(IF k <= 4 THEN (val[1] \div (16 ^ (4 - k))) % 16
                           ELSE (val[2] \div (16 ^ (8 - k))) % 16)]

\* The directive list holds a library name with a double quote.
HasQuotedLib ==
    \E i \in 1..Len(input.args) :
        /\ input.args[i].op \in {"default_lib", "no_default_lib"}
        /\ \E j \in 1..Len(input.args[i].strs) : ContainsQuote(input.args[i].strs[j])

\* C1 (as claimed): when CAPACITY is the sum of the sizes of the directive
\* list, no append of the list fails and after the last append the cursor
\* len equals CAPACITY.
C1_LenEqualsCapacity ==
    (/\ input.name \in {"windows", "LinkArgs"}
     /\ pc \in {"fill", "done", "panic"}
     /\ CAPACITY = windows_SIZE(input.args))
        => /\ pc # "panic"
           /\ index = Len(calls) => LinkArgs_len(BUFFER) = CAPACITY

\* C1, away from the quoted names: the same statement for the directive
\* lists in which no library name holds a double quote.
C1_LenEqualsCapacity_Unquoted ==
    (/\ input.name \in {"windows", "LinkArgs"}
     /\ pc \in {"fill", "done", "panic"}
     /\ CAPACITY = windows_SIZE(input.args)
     /\ ~HasQuotedLib)
        => /\ pc # "panic"
           /\ index = Len(calls) => LinkArgs_len(BUFFER) = CAPACITY

\* C2 (as claimed): the size calculator returns 0 for a default_lib or
\* no_default_lib whose library name contains a double quote.
C2_QuotedSizeIsZero ==
    (input.name = "windows" /\ pc # "size") =>
        \A i \in 1..Len(input.args) : \A j \in 1..Len(input.args[i].strs) :
            ContainsQuote(input.args[i].strs[j]) =>
                /\ input.args[i].op = "default_lib" =>
                       ArgSize_default_lib(input.args[i].strs[j]) = 0
                /\ input.args[i].op = "no_default_lib" =>
                       ArgSize_no_default_lib(input.args[i].strs[j]) = 0

\* C3 (as claimed): default_lib and no_default_lib with a library name that
\* contains a double quote leave the cursor and every byte as they were.
C3_QuotedWritesNothing ==
    [][ (/\ NextCall("default_lib") \/ NextCall("no_default_lib")
         /\ ContainsQuote(TheCall.str))
            => /\ BUFFER'.len = BUFFER.len
               /\ BUFFER'.buffer = BUFFER.buffer ]_vars

\* C4: for a library name without a double quote, ArgSize::default_lib is
\* 15 + name.len() and LinkArgs::default_lib appends exactly
\* /DEFAULTLIB:"name" and a space at the cursor.
C4_DefaultLib ==
    [][ (NextCall("default_lib") /\ ~ContainsQuote(TheCall.str))
            => /\ ArgSize_default_lib(TheCall.str) = 15 + Len(TheCall.str)
               /\ AppendsExactly(
                      as_bytes(<<"/", "D", "E", "F", "A", "U", "L", "T", "L", "I", "B", ":", "\"">>)
                          \o TheCall.str \o as_bytes(<<"\"", " ">>)) ]_vars

\* C4 witness: default_lib("ucrt", "libvcruntime", "libcmt") has filled its
\* 67 bytes.
C4_Witness ==
    /\ input.args = << [op |-> "default_lib", nums |-> <<>>,
                        strs |-> <<ucrt, libvcruntime, libcmt>>] >>
    /\ index = 3
    /\ CAPACITY = 67
    /\ LinkArgs_len(BUFFER) = 67
    /\ BUFFER.buffer =
        as_bytes(<<"/", "D", "E", "F", "A", "U", "L", "T", "L", "I", "B",
                   ":", "\"", "u", "c", "r", "t", "\"", " ", "/", "D", "E",
                   "F", "A", "U", "L", "T", "L", "I", "B", ":", "\"", "l",
                   "i", "b", "v", "c", "r", "u", "n", "t", "i", "m", "e",
                   "\"", " ", "/", "D", "E", "F", "A", "U", "L", "T", "L",
                   "I", "B", ":", "\"", "l", "i", "b", "c", "m", "t", "\"",
                   " ">>)

\* C5: for a library name without a double quote, ArgSize::no_default_lib is
\* 17 + name.len() and LinkArgs::no_default_lib appends exactly
\* /NODEFAULTLIB:"name" and a space at the cursor.
C5_NoDefaultLib ==
    [][ (NextCall("no_default_lib") /\ ~ContainsQuote(TheCall.str))
            => /\ ArgSize_no_default_lib(TheCall.str) = 17 + Len(TheCall.str)
               /\ AppendsExactly(
                      as_bytes(<<"/", "N", "O", "D", "E", "F", "A", "U", "L", "T", "L", "I", "B", ":", "\"">>)
                          \o TheCall.str \o as_bytes(<<"\"", " ">>)) ]_vars

\* C5 witness: no_default_lib("kernel32.lib") was appended after another
\* directive.
C5_Witness ==
    /\ index = Len(calls)
    /\ index >= 2
    /\ calls[index].fn = "no_default_lib"
    /\ calls[index].str = kernel32
    /\ pc = "fill"
    /\ LinkArgs_len(BUFFER) > 29
    /\ SubSeq(BUFFER.buffer, BUFFER.len - 28, BUFFER.len) =
        as_bytes(<<"/", "N", "O", "D", "E", "F", "A", "U", "L", "T", "L",
                   "I", "B", ":", "\"", "k", "e", "r", "n", "e", "l", "3",
                   "2", ".", "l", "i", "b", "\"", " ">>)

\* C6: ArgSize::STACK_SIZE is 18 and LinkArgs::stack_size appends exactly
\* /STACK:0x, the 8 zero-padded lowercase hex digits of reserve (most
\* significant first) and one space.
C6_StackSize ==
    [][ NextCall("stack_size")
            => /\ ArgSize_STACK_SIZE = 18
               /\ AppendsExactly(
                      as_bytes(<<"/", "S", "T", "A", "C", "K", ":", "0", "x">>)
                          \o Hex8(TheCall.nums[1]) \o as_bytes(<<" ">>)) ]_vars

\* C6 witness: stack_size(0x800000) alone gives /STACK:0x00800000 and a space.
C6_Witness ==
    /\ pc = "done"
    /\ calls = << [fn |-> "stack_size", nums |-> << <<128, 0>> >>, str |-> <<>>] >>
    /\ DIRECTIVE =
        as_bytes(<<"/", "S", "T", "A", "C", "K", ":", "0", "x", "0", "0",
                   "8", "0", "0", "0", "0", "0", " ">>)

\* C7: ArgSize::STACK_SIZE_WITH_COMMIT is 29 and
\* LinkArgs::stack_size_with_commit appends exactly /STACK:0x, the 8 hex
\* digits of reserve, a comma, 0x, the 8 hex digits of commit and one space.
C7_StackSizeWithCommit ==
    [][ NextCall("stack_size_with_commit")
            => /\ ArgSize_STACK_SIZE_WITH_COMMIT = 29
               /\ AppendsExactly(
                      as_bytes(<<"/", "S", "T", "A", "C", "K", ":", "0", "x">>)
                          \o Hex8(TheCall.nums[1]) \o as_bytes(<<",", "0", "x">>)
                          \o Hex8(TheCall.nums[2]) \o as_bytes(<<" ">>)) ]_vars

\* C7 witness: stack_size(0x89abcdef, 0x01234567) alone.
C7_Witness ==
    /\ pc = "done"
    /\ calls = << [fn |-> "stack_size_with_commit",
                   nums |-> << <<35243, 52719>>, <<291, 17767>> >>, str |-> <<>>] >>
    /\ DIRECTIVE =
        as_bytes(<<"/", "S", "T", "A", "C", "K", ":", "0", "x", "8", "9",
                   "a", "b", "c", "d", "e", "f", ",", "0", "x", "0", "1",
                   "2", "3", "4", "5", "6", "7", " ">>)

\* C8: the size of raw(text) is text.len() + 1, LinkArgs::raw appends exactly
\* the bytes of text and one space, and windows_raw! emits the same
\* text-and-space array.
C8_Raw ==
    [][ /\ NextCall("raw")
            => /\ impl_msvc_arg_size([op |-> "raw", nums |-> <<>>,
                                      strs |-> <<TheCall.str>>])
                      = Len(TheCall.str) + 1
               /\ AppendsExactly(TheCall.str \o <<32>>)
        /\ pc = "raw"
            => /\ DIRECTIVE' = input.text \o <<32>>
               /\ DIRECTIVE' = LET b == raw(LinkArgs_new(Len(input.text) + 1), input.text)
                               IN  into_array(b) ]_vars

\* C8 witness: raw of a text with quotes and a space was appended after
\* another directive.
C8_Witness ==
    /\ pc = "fill"
    /\ index >= 2
    /\ calls[index].fn = "raw"
    /\ calls[index].str = quoted_text
    /\ SubSeq(BUFFER.buffer, BUFFER.len - 8, BUFFER.len) =
        as_bytes(<<"/", "X", ":", "\"", "a", " ", "b", "\"", " ">>)

\* C9: ArgSize::DISABLE_ALL_DEFAULT_LIBS is 14 and
\* LinkArgs::disable_all_default_libs appends exactly the 14 bytes of
\* /NODEFAULTLIB and a space.
C9_DisableAllDefaultLibs ==
    [][ NextCall("disable_all_default_libs")
            => /\ ArgSize_DISABLE_ALL_DEFAULT_LIBS = 14
               /\ AppendsExactly(
                      as_bytes(<<"/", "N", "O", "D", "E", "F", "A", "U", "L",
                                 "T", "L", "I", "B", " ">>)) ]_vars

\* C9 witness: disable_all_default_libs() alone.
C9_Witness ==
    /\ pc = "done"
    /\ calls = << [fn |-> "disable_all_default_libs", nums |-> <<>>, str |-> <<>>] >>
    /\ Len(DIRECTIVE) = 14
    /\ DIRECTIVE =
        as_bytes(<<"/", "N", "O", "D", "E", "F", "A", "U", "L", "T", "L",
                   "I", "B", " ">>)

\* What one call appends alone to an empty buffer of capacity cap.
RenderAlone(c, cap) ==
    LET new == LinkArgs_new(cap)
        b == CASE c.fn = "stack_size" -> stack_size(new, c.nums[1])
               [] c.fn = "stack_size_with_commit" ->
                      stack_size_with_commit(new, c.nums[1], c.nums[2])
               [] c.fn = "default_lib" -> default_lib(new, c.str)
               [] c.fn = "no_default_lib" -> no_default_lib(new, c.str)
               [] c.fn = "disable_all_default_libs" -> disable_all_default_libs(new)
               [] c.fn = "raw" -> raw(new, c.str)
    IN  SubSeq(b.buffer, 1, b.len)

\* C10: while no append has failed, the bytes before the cursor are the
\* concatenation, in append order, of what each call appends alone to an
\* empty buffer.
C10_OrderPreserved ==
    pc \in {"fill", "done"} =>
        SubSeq(BUFFER.buffer, 1, BUFFER.len) =
            Flatten([k \in 1..index |-> RenderAlone(calls[k], CAPACITY)])

\* C10 witness: raw("/ENTRY:mainCRTStartup") then stack_size(0x800000).
C10_Witness ==
    /\ pc = "done"
    /\ Len(calls) = 2
    /\ calls[1].fn = "raw"
    /\ calls[2].fn = "stack_size"
    /\ DIRECTIVE =
        as_bytes(<<"/", "E", "N", "T", "R", "Y", ":", "m", "a", "i", "n",
                   "C", "R", "T", "S", "t", "a", "r", "t", "u", "p", " ",
                   "/", "S", "T", "A", "C", "K", ":", "0", "x", "0", "0",
                   "8", "0", "0", "0", "0", "0", " ">>)

\* The bytes a call tries to append: what it appends alone to an empty
\* buffer that is large enough for any argument of the call.
Rendering(c) == RenderAlone(c, Len(c.str) + 32)

\* Some call of the chain is about to run.
AnyCall == pc = "fill" /\ index < Len(calls)

\* C11: an append whose rendering is longer than CAPACITY - len does not
\* return a buffer (the chain stops in the panic state, from which no step
\* is taken and no array is emitted), and the array keeps its CAPACITY
\* bytes: no byte is written at an index >= CAPACITY.
C11_OverflowIsHardFailure ==
    [][ /\ (AnyCall /\ Len(Rendering(TheCall)) > CAPACITY - BUFFER.len)
            => /\ BUFFER'.panicked
               /\ pc' = "panic"
               /\ DOMAIN BUFFER'.buffer = 1..CAPACITY
               /\ BUFFER'.len <= CAPACITY
               /\ DIRECTIVE' = <<>>
        /\ pc = "panic" => FALSE ]_vars

\* C11 witness: a chain on a buffer of 18 bytes has panicked in its second
\* call, after filling the buffer to its end.
C11_Witness ==
    /\ pc = "panic"
    /\ BUFFER.panicked
    /\ index = 2
    /\ CAPACITY = 18
    /\ BUFFER.len = CAPACITY
    /\ DIRECTIVE = <<>>

\* C12: LinkArgs::new() gives CAPACITY zero bytes and cursor 0; while the
\* appends succeed every byte at or after the cursor is 0; into_array gives
\* all CAPACITY bytes of the buffer unchanged, so the tail of an
\* under-filled buffer is emitted as NUL bytes.
C12_ZeroTail ==
    /\ pc = "fill" =>
           /\ Len(BUFFER.buffer) = CAPACITY
           /\ \A i \in (BUFFER.len + 1)..CAPACITY : BUFFER.buffer[i] = 0
           /\ index = 0 => LinkArgs_len(BUFFER) = 0
    /\ (pc = "done" /\ input.name \in {"windows", "LinkArgs"}) =>
           /\ DIRECTIVE = BUFFER.buffer
           /\ Len(DIRECTIVE) = CAPACITY
           /\ \A i \in (BUFFER.len + 1)..CAPACITY : DIRECTIVE[i] = 0

\* C12 witness: an under-filled buffer was finalized: the array ends in NUL
\* bytes after the last separator.
C12_Witness ==
    /\ pc = "done"
    /\ input.name \in {"windows", "LinkArgs"}
    /\ BUFFER.len > 0
    /\ BUFFER.len < CAPACITY
    /\ Len(DIRECTIVE) = CAPACITY
    /\ DIRECTIVE[BUFFER.len] = 32
    /\ DIRECTIVE[BUFFER.len + 1] = 0
    /\ DIRECTIVE[CAPACITY] = 0

\* The values of self at the head of each iteration of the loop of
\* Buffer::push(self, src): after k iterations the loop has read src[0..k)
\* only, so its state is that of the push of the first k bytes.
PushStates(self, src) == {push(self, SubSeq(src, 1, k)) : k \in 0..Len(src)}

\* C13: the cursor stays within 0..CAPACITY: in every state of the chain,
\* and in every intermediate state of the pushes of a call (the call being
\* the push of its rendering at the cursor).
C13_CursorInRange ==
    [][ /\ 0 <= BUFFER'.len
        /\ BUFFER'.len <= CAPACITY'
        /\ AnyCall =>
               /\ BUFFER' = push(BUFFER, Rendering(TheCall))
               /\ \A s \in PushStates(BUFFER, Rendering(TheCall)) :
                      /\ 0 <= s.len
                      /\ s.len <= CAPACITY
                      /\ Len(s.buffer) = CAPACITY ]_vars

\* C13 witness: a chain of two or more calls has returned with the cursor
\* at CAPACITY.
C13_Witness ==
    /\ pc = "fill"
    /\ index >= 2
    /\ index = Len(calls)
    /\ CAPACITY > 0
    /\ LinkArgs_len(BUFFER) = CAPACITY

\* C14: a call that returns a buffer leaves the bytes before the old cursor
\* and the bytes from the new cursor on as they were, does not move the
\* cursor back, and moves it by exactly the number of bytes it wrote (its
\* rendering, found at the old cursor); LinkArgs::len reports the cursor.
C14_AppendOnly ==
    [][ (AnyCall /\ pc' = "fill")
            => /\ LinkArgs_len(BUFFER') = BUFFER'.len
               /\ LinkArgs_len(BUFFER') >= LinkArgs_len(BUFFER)
               /\ LinkArgs_len(BUFFER') - LinkArgs_len(BUFFER) = Len(Rendering(TheCall))
               /\ SubSeq(BUFFER'.buffer, BUFFER.len + 1, BUFFER'.len) = Rendering(TheCall)
               /\ \A i \in 1..CAPACITY :
                      (i <= BUFFER.len \/ i > BUFFER'.len)
                          => BUFFER'.buffer[i] = BUFFER.buffer[i] ]_vars

\* C14 witness: the third call of a chain has returned, having written
\* after the bytes of the first two.
C14_Witness ==
    /\ pc = "fill"
    /\ index = 3
    /\ ~BUFFER.panicked
    /\ LinkArgs_len(BUFFER) > Len(Rendering(calls[1])) + Len(Rendering(calls[2]))
    /\ SubSeq(BUFFER.buffer, 1, Len(Rendering(calls[1]))) = Rendering(calls[1])

\* C15: msvc::stack_size! emits byte for byte the array that
\* LinkArgs::new().stack_size(reserve).into_array() gives with CAPACITY 18,
\* and with a commit the array that stack_size_with_commit gives with
\* CAPACITY 29 (the arrays of windows_msvc_stack_size!).
C15_MsvcStackSizeSameBytes ==
    [][ pc = "msvc"
            => /\ Len(input.nums) = 1
                   => /\ DIRECTIVE' = windows_msvc_stack_size(input.nums[1])
                      /\ DIRECTIVE' = into_array(stack_size(LinkArgs_new(18),
                                                            input.nums[1]))
                      /\ Len(DIRECTIVE') = 18
               /\ Len(input.nums) = 2
                   => /\ DIRECTIVE' = windows_msvc_stack_size_commit(input.nums[1],
                                                                     input.nums[2])
                      /\ DIRECTIVE' = into_array(stack_size_with_commit(
                                          LinkArgs_new(29), input.nums[1], input.nums[2]))
                      /\ Len(DIRECTIVE') = 29 ]_vars

\* C15 witness: msvc::stack_size!(0x89abcdef, 0x01234567) has emitted its
\* array.
C15_Witness ==
    /\ pc = "done"
    /\ input.name = "msvc_stack_size"
    /\ input.nums = << <<35243, 52719>>, <<291, 17767>> >>
    /\ DIRECTIVE =
        as_bytes(<<"/", "S", "T", "A", "C", "K", ":", "0", "x", "8", "9", "a", "b", "c", "d", "e", "f", ",", "0", "x", "0", "1", "2", "3", "4", "5", "6", "7", " ">>)

====
